---- MODULE Spec2Model ----
(***************************************************************************)
(* A model of calculator.py: the AST-walking SafeExpressionEvaluator and   *)
(* the interactive loop Calculator.run around it.                          *)
(*                                                                         *)
(* Python floats are modelled as normalised rationals <<n, d>> (d > 0) of  *)
(* a small precision: the arithmetic operators round their result as a     *)
(* double does, only sooner.  The libm functions and fractional powers,    *)
(* whose results are irrational, are piecewise-linear interpolations of    *)
(* half-step tables scaled by Grid.  The arithmetic keeps what the         *)
(* evaluator's control flow depends on: the sign of a result, whether it   *)
(* is exactly zero or an integer, and the arguments on which the host      *)
(* raises.  The inputs of the model stay far below the range of a double,  *)
(* so OverflowError does not occur.                                        *)
(***************************************************************************)
EXTENDS Integers, Sequences, FiniteSets, TLC

(***************************************************************************)
(* Rational arithmetic: the float operations of the host.                  *)
(***************************************************************************)
Abs(i) == IF i < 0 THEN -i ELSE i

RECURSIVE GCD(_, _)
GCD(a, b) == IF b = 0 THEN a ELSE GCD(b, a % b)

\* The precision of the model's floats: a result that is no multiple of
\* 1/d for some d <= Prec is rounded to the nearest multiple of 1/Prec.
Prec == 2 ^ 7

\* The normal form of n/d, d # 0.
Norm(n, d) ==
    LET g == GCD(Abs(n), Abs(d))
        s == IF d < 0 THEN -1 ELSE 1
    IN  <<(s * n) \div g, (s * d) \div g>>

\* Rounding never turns a nonzero result into zero: a double underflows
\* only far below the magnitudes of the model.
RoundTo(x) ==
    LET q == x[1] \div x[2]
        r == x[1] % x[2]
        k == (2 * r * Prec + x[2]) \div (2 * x[2])
        y == Norm(q * Prec + k, Prec)
    IN  IF y[1] = 0 THEN <<IF x[1] < 0 THEN -1 ELSE 1, Prec>> ELSE y

\* The float nearest to n/d, d # 0.
Rat(n, d) ==
    LET x == Norm(n, d)
    IN  IF x[2] <= Prec THEN x ELSE RoundTo(x)

Zero == <<0, 1>>
One == <<1, 1>>

RAdd(x, y) == Rat(x[1] * y[2] + y[1] * x[2], x[2] * y[2])
RNeg(x) == <<-x[1], x[2]>>
RSub(x, y) == RAdd(x, RNeg(y))
RMul(x, y) == Rat(x[1] * y[1], x[2] * y[2])
RDiv(x, y) == Rat(x[1] * y[2], x[2] * y[1])
RLess(x, y) == x[1] * y[2] < y[1] * x[2]
RFloor(x) == x[1] \div x[2]
Abs2(x) == <<Abs(x[1]), x[2]>>
IsInt(x) == x[2] = 1
IsZero(x) == x[1] = 0
IsNeg(x) == x[1] < 0

\* Python's float %: the result takes the sign of the divisor.
RMod(x, y) == RSub(x, RMul(y, <<RFloor(RDiv(x, y)), 1>>))

\* x ** k for an integer k >= 0.
RECURSIVE RPowNat(_, _)
RPowNat(x, k) == IF k = 0 THEN One ELSE RMul(x, RPowNat(x, k - 1))

(***************************************************************************)
(* The math module: math.pi, math.e and the six functions of the           *)
(* whitelist.                                                              *)
(***************************************************************************)
Grid == 2 ^ 6
PI == <<201, 64>>
E == <<87, 32>>
TwoPi == RAdd(PI, PI)
Half == <<1, 2>>
Ln2 == <<44, Grid>>
Log10Of2 == <<19, Grid>>

\* f(k/2) * Grid, rounded, for k = 0, 1, ...
SinTab == <<0, 31, 54, 64, 58, 38, 9, -22, -48, -63, -61, -45, -18, 14, 42>>
CosTab == <<64, 56, 35, 5, -27, -51, -63, -60, -42, -13, 18, 45, 61, 63, 48>>
SqrtTab == <<0, 45, 64, 78, 91, 101, 111, 120, 128, 136, 143, 150, 157, 163,
             169, 175, 181, 187, 192, 197, 202, 207, 212, 217, 222, 226, 231,
             235, 239, 244, 248, 252, 256>>
\* The logarithms start at k = 1: LogTab[k] is log(k/2) * Grid.
LogTab == <<-44, 0, 26, 44, 59, 70, 80, 89, 96, 103, 109, 115, 120, 125, 129,
            133, 137, 141, 144, 147, 150, 153, 156, 159, 162, 164, 167, 169,
            171, 173, 175, 177>>
Log10Tab == <<-19, 0, 11, 19, 25, 31, 35, 39, 42, 45, 47, 50, 52, 54, 56, 58,
              59, 61, 63, 64, 65, 67, 68, 69, 70, 71, 72, 73, 74, 75, 76, 77>>

\* The table tab (tab[k + off] is the value at k/2) interpolated at x.
Interp(tab, off, x) ==
    LET x2 == RAdd(x, x)
        k == RFloor(x2)
        frac == RSub(x2, <<k, 1>>)
        lo == tab[k + off]
        hi == tab[k + off + 1]
    IN  IF IsZero(frac) THEN Rat(lo, Grid)
        ELSE RDiv(RAdd(<<lo, 1>>, RMul(<<hi - lo, 1>>, frac)), <<Grid, 1>>)

\* A libm result is zero only where the function is exactly zero.
NonZero(x) == IF IsZero(x) THEN <<1, Prec>> ELSE x

Reduce(x) == RSub(x, RMul(TwoPi, <<RFloor(RDiv(x, TwoPi)), 1>>))

Sin(x) == IF IsZero(x) THEN Zero ELSE NonZero(Interp(SinTab, 1, Reduce(x)))
Cos(x) == IF IsZero(x) THEN One ELSE NonZero(Interp(CosTab, 1, Reduce(x)))
Tan(x) == RDiv(Sin(x), Cos(x))

IsSquare(n) == \E r \in 0..n : r * r = n
Root(n) == CHOOSE r \in 0..n : r * r = n

\* x >= 0.
RECURSIVE Sqrt(_)
Sqrt(x) ==
    IF x[1] <= 1024 /\ x[2] <= 1024 /\ IsSquare(x[1]) /\ IsSquare(x[2])
    THEN <<Root(x[1]), Root(x[2])>>
    ELSE IF RLess(<<16, 1>>, x) THEN RMul(<<2, 1>>, Sqrt(RDiv(x, <<4, 1>>)))
    ELSE NonZero(Interp(SqrtTab, 1, x))

\* x > 0.
RECURSIVE LogBy(_, _, _)
LogBy(tab, log2, x) ==
    IF x = One THEN Zero
    ELSE IF RLess(x, Half) THEN RSub(LogBy(tab, log2, RAdd(x, x)), log2)
    ELSE IF ~RLess(x, <<16, 1>>) THEN RAdd(LogBy(tab, log2, RMul(x, Half)), log2)
    ELSE NonZero(Interp(tab, 0, x))

Log(x) == LogBy(LogTab, Ln2, x)
Log10(x) == LogBy(Log10Tab, Log10Of2, x)

\* exp(z) as 2 ** (z / ln 2), the fractional power of two interpolated.
RECURSIVE TwoTo(_)
TwoTo(k) == IF k = 0 THEN One
            ELSE IF k > 0 THEN RMul(<<2, 1>>, TwoTo(k - 1))
            ELSE RMul(Half, TwoTo(k + 1))

Exp(z) ==
    LET w == RDiv(z, Ln2)
        k == RFloor(w)
        f == RSub(w, <<k, 1>>)
    IN  RMul(TwoTo(k), RAdd(One, RDiv(RMul(f, RAdd(f, <<2, 1>>)), <<3, 1>>)))

\* x ** y for x > 0 and a fractional y: through the square root when y is
\* a multiple of 1/2, through exp and log otherwise.
RealPow(x, y) ==
    IF y[2] = 2
    THEN IF IsNeg(y) THEN RDiv(One, RPowNat(Sqrt(x), -y[1]))
         ELSE RPowNat(Sqrt(x), y[1])
    ELSE Exp(RMul(y, Log(x)))

(***************************************************************************)
(* Values: a Python float, or the complex number that float ** float       *)
(* returns for a negative base and a fractional exponent.                  *)
(***************************************************************************)
Float(x) == [t |-> "float", re |-> x, im |-> Zero]
Complex(x, y) == [t |-> "complex", re |-> x, im |-> y]
NoValue == [t |-> "none", re |-> Zero, im |-> Zero]

IsComplex(v) == v.t = "complex"
VZero(v) == IsZero(v.re) /\ IsZero(v.im)

\* The outcome of a computation: a value, or a raised exception of class
\* exc whose message is msg with name interpolated.  trace lists the nodes
\* _eval_node was entered on, in order.
Ret(v) == [ok |-> TRUE, val |-> v, exc |-> "", msg |-> "", name |-> "",
           trace |-> <<>>]
Raise(exc, msg, name) ==
    [ok |-> FALSE, val |-> NoValue, exc |-> exc, msg |-> msg, name |-> name,
     trace |-> <<>>]

CAdd(a, b) == Complex(RAdd(a.re, b.re), RAdd(a.im, b.im))
CSub(a, b) == Complex(RSub(a.re, b.re), RSub(a.im, b.im))
CMul(a, b) == Complex(RSub(RMul(a.re, b.re), RMul(a.im, b.im)),
                      RAdd(RMul(a.re, b.im), RMul(a.im, b.re)))
CDiv(a, b) ==
    LET m == RAdd(RMul(b.re, b.re), RMul(b.im, b.im))
    IN  Complex(RDiv(RAdd(RMul(a.re, b.re), RMul(a.im, b.im)), m),
                RDiv(RSub(RMul(a.im, b.re), RMul(a.re, b.im)), m))

RECURSIVE CPowNat(_, _)
CPowNat(a, k) == IF k = 0 THEN Complex(One, Zero) ELSE CMul(a, CPowNat(a, k - 1))

\* The argument of a complex number, to the nearest axis.
Arg(a) == IF IsZero(a.im) THEN (IF IsNeg(a.re) THEN PI ELSE Zero)
          ELSE IF IsNeg(a.im) THEN RNeg(RMul(PI, Half))
          ELSE RMul(PI, Half)

\* a ** b through the polar form, a # 0: exp(b * (ln |a| + i arg a)).
CPowPolar(a, b) ==
    LET l == Log(Sqrt(RAdd(RMul(a.re, a.re), RMul(a.im, a.im))))
        g == Arg(a)
        m == IF IsZero(a.im) /\ IsZero(b.im) THEN RealPow(Abs2(a.re), b.re)
             ELSE Exp(RSub(RMul(b.re, l), RMul(b.im, g)))
        w == RAdd(RMul(b.re, g), RMul(b.im, l))
    IN  Complex(RMul(m, Cos(w)), RMul(m, Sin(w)))

\* complex ** complex.
CPow(a, b) ==
    IF VZero(b) THEN Ret(Complex(One, Zero))
    ELSE IF VZero(a)
    THEN IF IsNeg(b.re) \/ ~IsZero(b.im)
         THEN Raise("ZeroDivisionError", "0.0 to a negative or complex power", "")
         ELSE Ret(Complex(Zero, Zero))
    ELSE IF IsZero(b.im) /\ IsInt(b.re)
    THEN IF IsNeg(b.re)
         THEN Ret(CDiv(Complex(One, Zero), CPowNat(a, -b.re[1])))
         ELSE Ret(CPowNat(a, b.re[1]))
    ELSE Ret(CPowPolar(a, b))

\* float ** float.
FPow(x, y) ==
    IF IsZero(y) THEN Ret(Float(One))
    ELSE IF IsZero(x)
    THEN IF IsNeg(y)
         THEN Raise("ZeroDivisionError",
                    "0.0 cannot be raised to a negative power", "")
         ELSE Ret(Float(Zero))
    ELSE IF IsInt(y)
    THEN IF IsNeg(y) THEN Ret(Float(RDiv(One, RPowNat(x, -y[1]))))
         ELSE Ret(Float(RPowNat(x, y[1])))
    ELSE IF IsNeg(x) THEN Ret(CPowPolar(Float(x), Float(y)))
    ELSE Ret(Float(RealPow(x, y)))

\* The binary operators of Python on floats and complex numbers.
Add(l, r) == IF IsComplex(l) \/ IsComplex(r) THEN Ret(CAdd(l, r))
             ELSE Ret(Float(RAdd(l.re, r.re)))
Sub(l, r) == IF IsComplex(l) \/ IsComplex(r) THEN Ret(CSub(l, r))
             ELSE Ret(Float(RSub(l.re, r.re)))
Mult(l, r) == IF IsComplex(l) \/ IsComplex(r) THEN Ret(CMul(l, r))
              ELSE Ret(Float(RMul(l.re, r.re)))
\* Division as IEEE 754 defines it, without Python's check of the divisor:
\* a zero divisor gives a value (an infinity, standing here as the dividend).
DivUnchecked(l, r) ==
    IF IsComplex(l) \/ IsComplex(r)
    THEN IF VZero(r) THEN Ret(l) ELSE Ret(CDiv(l, r))
    ELSE IF IsZero(r.re) THEN Ret(l)
    ELSE Ret(Float(RDiv(l.re, r.re)))

Div(l, r) ==
    IF IsComplex(l) \/ IsComplex(r)
    THEN IF VZero(r) THEN Raise("ZeroDivisionError", "complex division by zero", "")
         ELSE Ret(CDiv(l, r))
    ELSE IF IsZero(r.re) THEN Raise("ZeroDivisionError", "float division by zero", "")
    ELSE Ret(Float(RDiv(l.re, r.re)))
Mod(l, r) ==
    IF IsComplex(l) \/ IsComplex(r)
    THEN Raise("TypeError", "unsupported operand type(s) for %", "")
    ELSE IF IsZero(r.re) THEN Raise("ZeroDivisionError", "float modulo", "")
    ELSE Ret(Float(RMod(l.re, r.re)))
Pow(l, r) == IF IsComplex(l) \/ IsComplex(r) THEN CPow(l, r)
             ELSE FPow(l.re, r.re)

\* The functions of the math module on an evaluated argument.
MathCall(f, v) ==
    IF IsComplex(v) THEN Raise("TypeError", "must be real number, not complex", "")
    ELSE CASE f = "sqrt" -> IF IsNeg(v.re) THEN Raise("ValueError", "math domain error", "")
                            ELSE Ret(Float(Sqrt(v.re)))
           [] f = "sin" -> Ret(Float(Sin(v.re)))
           [] f = "cos" -> Ret(Float(Cos(v.re)))
           [] f = "tan" -> Ret(Float(Tan(v.re)))
           [] f = "log" -> IF ~RLess(Zero, v.re)
                           THEN Raise("ValueError", "math domain error", "")
                           ELSE Ret(Float(Log(v.re)))
           [] f = "log10" -> IF ~RLess(Zero, v.re)
                             THEN Raise("ValueError", "math domain error", "")
                             ELSE Ret(Float(Log10(v.re)))

(***************************************************************************)
(* The syntax trees of the ast module.  Every node is a record of one      *)
(* shape: k the node class, a its operator class, identifier, attribute    *)
(* or constant type, v a numeric constant's value, func the callee of a    *)
(* Call (a sequence of one node), args the operands or the positional      *)
(* arguments, kw the values of the keyword arguments.                      *)
(***************************************************************************)
Node(k, a, v, func, args, kw) ==
    [k |-> k, a |-> a, v |-> v, func |-> func, args |-> args, kw |-> kw]

Constant(type, v) == Node("Constant", type, v, <<>>, <<>>, <<>>)
Name(id) == Node("Name", id, Zero, <<>>, <<>>, <<>>)
UnaryOp(op, operand) == Node("UnaryOp", op, Zero, <<>>, <<operand>>, <<>>)
BinOp(left, op, right) == Node("BinOp", op, Zero, <<>>, <<left, right>>, <<>>)
Call(func, args, keywords) == Node("Call", "", Zero, <<func>>, args, keywords)
Attribute(value, attr) == Node("Attribute", attr, Zero, <<>>, <<value>>, <<>>)
\* Any other expression class: Compare, BoolOp, List, Dict, IfExp, ...
Other(k, children) == Node(k, "", Zero, <<>>, children, <<>>)

VARIABLES
    allowed_functions,  \* SafeExpressionEvaluator: name -> math function
    allowed_names,      \* SafeExpressionEvaluator: name -> value
    history,            \* Calculator: the records, oldest first
    welcome_shown,      \* Calculator: the banner was printed
    pc,                 \* "ready", "returned" (eval has returned or raised to
                        \* its caller) or "exited" (run has left its loop)
    event,              \* what run read last: "line", "interrupt", "eof"
    expression,         \* the text last read by run or given to eval
    outcome,            \* what eval did with it
    seen                \* an earlier call of eval: its text and its outcome

vars == <<allowed_functions, allowed_names, history, welcome_shown, pc, event,
          expression, outcome, seen>>

\* isinstance(value, (int, float)): bool is a subclass of int.
IsIntOrFloat(type) == type \in {"int", "float", "bool"}

With(tr, res) == [res EXCEPT !.trace = tr]

Negate(v) == IF IsComplex(v) THEN Complex(RNeg(v.re), RNeg(v.im))
             ELSE Float(RNeg(v.re))

\* Lines 80-93: the operator of a BinOp applied to its evaluated operands.
ApplyBinOp(op, left, right) ==
    CASE op = "Add" -> Add(left, right)
      [] op = "Sub" -> Sub(left, right)
      [] op = "Mult" -> Mult(left, right)
      [] op = "Div" -> Div(left, right)
      [] op = "Mod" -> Mod(left, right)
      [] op = "Pow" -> Pow(left, right)
      [] OTHER -> Raise("ValueError", "unsupported binary operator", op)

\* Lines 68-73.
ApplyUnaryOp(op, operand) ==
    CASE op = "UAdd" -> Ret(operand)
      [] op = "USub" -> Ret(Negate(operand))
      [] OTHER -> Raise("ValueError", "unsupported unary operator", op)

\* The callee taken from node.func.attr whatever the qualifier is.
FuncNameAnyQualifier(func) ==
    IF func.k = "Name" THEN Ret(Float(Zero))
    ELSE IF func.k = "Attribute"
    THEN IF func.a \notin DOMAIN allowed_functions
         THEN Raise("ValueError", "unsupported function", func.a)
         ELSE Ret(Float(Zero))
    ELSE Raise("ValueError", "unsupported call format", "")

\* Lines 98-110: the name a Call's callee stands for, or the error.
FuncName(func) ==
    IF func.k = "Name" THEN Ret(Float(Zero))
    ELSE IF func.k = "Attribute"
    THEN IF func.args[1].k = "Name" /\ func.args[1].a = "math"
         THEN IF func.a \notin DOMAIN allowed_functions
              THEN Raise("ValueError", "unsupported function", func.a)
              ELSE Ret(Float(Zero))
         ELSE Raise("ValueError", "unsupported attribute access", func.a)
    ELSE Raise("ValueError", "unsupported call format", "")

\* The checks of a Call with the argument count taken before the whitelist.
CheckCallArityFirst(func_name, node) ==
    IF Len(node.args) # 1
    THEN Raise("ValueError", "function needs 1 argument", func_name)
    ELSE IF func_name \notin DOMAIN allowed_functions
    THEN Raise("ValueError", "unsupported function", func_name)
    ELSE IF node.kw # <<>>
    THEN Raise("ValueError", "keyword arguments are not supported", "")
    ELSE Ret(Float(Zero))

\* The checks of a Call without the one of node.keywords.
CheckCallNoKeywords(func_name, node) ==
    IF func_name \notin DOMAIN allowed_functions
    THEN Raise("ValueError", "unsupported function", func_name)
    ELSE IF Len(node.args) # 1
    THEN Raise("ValueError", "function needs 1 argument", func_name)
    ELSE Ret(Float(Zero))

\* Lines 112-122: the checks of a Call before its argument is evaluated.
CheckCall(func_name, node) ==
    IF func_name \notin DOMAIN allowed_functions
    THEN Raise("ValueError", "unsupported function", func_name)
    ELSE IF Len(node.args) # 1
    THEN Raise("ValueError", "function needs 1 argument", func_name)
    ELSE IF node.kw # <<>>
    THEN Raise("ValueError", "keyword arguments are not supported", "")
    ELSE Ret(Float(Zero))

\* The identifier looked up in both tables: a function's name has a value.
LookupNameOrFunction(id) ==
    IF id \in DOMAIN allowed_names THEN Ret(Float(allowed_names[id]))
    ELSE IF id \in DOMAIN allowed_functions THEN Ret(Float(Zero))
    ELSE Raise("ValueError", "undefined name", id)

\* Lines 132-135.
LookupName(id) ==
    IF id \in DOMAIN allowed_names THEN Ret(Float(allowed_names[id]))
    ELSE Raise("ValueError", "undefined name", id)

\* Lines 60-63.
EvalConstant(type, v) ==
    IF IsIntOrFloat(type) THEN Ret(Float(v))
    ELSE Raise("ValueError", "unsupported constant type", type)

RECURSIVE eval_node(_)
eval_node(node) ==
    LET here == <<node>>
    IN  CASE node.k = "Constant" ->
               With(here, EvalConstant(node.a, node.v))
          [] node.k = "UnaryOp" ->
               LET operand == eval_node(node.args[1])
                   tr == here \o operand.trace
               IN  IF ~operand.ok THEN With(tr, operand)
                   ELSE With(tr, ApplyUnaryOp(node.a, operand.val))
          [] node.k = "BinOp" ->
               LET left == eval_node(node.args[1])
               IN  IF ~left.ok THEN With(here \o left.trace, left)
                   ELSE LET right == eval_node(node.args[2])
                            tr == here \o left.trace \o right.trace
                        IN  IF ~right.ok THEN With(tr, right)
                            ELSE With(tr, ApplyBinOp(node.a, left.val, right.val))
          [] node.k = "Call" ->
               LET named == FuncName(node.func[1])
                   func_name == node.func[1].a
               IN  IF ~named.ok THEN With(here, named)
                   ELSE LET checked == CheckCall(func_name, node)
                        IN  IF ~checked.ok THEN With(here, checked)
                            ELSE LET arg == eval_node(node.args[1])
                                     tr == here \o arg.trace
                                 IN  IF ~arg.ok THEN With(tr, arg)
                                     ELSE With(tr, MathCall(allowed_functions[func_name],
                                                            arg.val))
          [] node.k = "Name" ->
               With(here, LookupName(node.a))
          [] OTHER ->
               With(here, Raise("ValueError", "unsupported AST node type", node.k))

(***************************************************************************)
(* A text is modelled by what ast.parse makes of it: Text(tree) is the     *)
(* fully parenthesised source of tree, NoParse a text that is no Python    *)
(* expression.                                                             *)
(***************************************************************************)
Text(tree) == [empty |-> FALSE, tree |-> <<tree>>]
NoParse == [empty |-> FALSE, tree |-> <<>>]
EmptyText == [empty |-> TRUE, tree |-> <<>>]

\* Line 41: "^" is the source of BitXor; replaced by "**" it parses to Pow.
RECURSIVE ReplaceCaret(_)
ReplaceSeq(s) == [i \in 1..Len(s) |-> ReplaceCaret(s[i])]
ReplaceCaret(node) ==
    [node EXCEPT !.a = IF node.k = "BinOp" /\ node.a = "BitXor" THEN "Pow" ELSE @,
                 !.func = ReplaceSeq(@),
                 !.args = ReplaceSeq(@),
                 !.kw = ReplaceSeq(@)]

\* Line 43.
ast_parse(text) ==
    IF text.tree = <<>>
    THEN Raise("SyntaxError", "invalid syntax", "")
    ELSE Ret(Float(Zero))

\* Lines 45-54: the exception handlers of eval.
Handle(res) ==
    IF res.ok THEN res
    ELSE CASE res.exc = "ZeroDivisionError" ->
                With(res.trace, Raise("ValueError", "division by zero", ""))
           [] res.exc \in {"SyntaxError", "TypeError"} ->
                With(res.trace, Raise("ValueError", "syntax error", ""))
           [] res.exc = "ValueError" ->
                IF res.msg = "math domain error"
                THEN With(res.trace, Raise("ValueError", "math domain error (domain)", ""))
                ELSE res
           [] OTHER ->
                With(res.trace, Raise("ValueError", "error", res.msg))

eval(text) ==
    LET parsed == ast_parse(text)
    IN  IF ~parsed.ok THEN Handle(parsed)
        ELSE Handle(eval_node(ReplaceCaret(text.tree[1])))

(***************************************************************************)
(* The texts the model feeds to the evaluator.                             *)
(***************************************************************************)
MaxInt == 2

Ints == {Constant("int", <<i, 1>>) : i \in 0..MaxInt}
Numbers == Ints \cup {Constant("float", Half)}
Leaves == Numbers \cup {Constant("bool", One), Constant("str", Zero)}
              \cup {Name(id) : id \in {"pi", "e", "x", "sqrt"}}
SmallLeaves == {Constant("int", Zero), Constant("int", <<MaxInt, 1>>),
                Constant("float", Half), Name("x")}

UnaryOps == {"UAdd", "USub", "Not"}
BinOps == {"Add", "Sub", "Mult", "Div", "Mod", "Pow", "BitXor", "BitOr"}
FuncIds == {"sqrt", "sin", "cos", "tan", "log", "log10", "foo"}
Callees == {Name(f) : f \in FuncIds}
               \cup {Attribute(Name(q), f) : q \in {"math", "os"},
                                             f \in {"sqrt", "log", "foo"}}
               \cup {Attribute(Constant("int", One), "sqrt"), Other("Lambda", <<>>)}

Unaries(S) == {UnaryOp(op, x) : op \in UnaryOps, x \in S}
Binaries(S, T) == {BinOp(x, op, y) : op \in BinOps, x \in S, y \in T}
Calls(S) == {Call(f, <<x>>, <<>>) : f \in Callees, x \in S}
\* Calls with no argument, two arguments, or a keyword argument.
OddCalls(S) ==
    {Call(f, <<>>, <<>>) : f \in Callees}
        \cup {Call(f, <<x, y>>, <<>>) : f \in Callees, x \in S, y \in S}
        \cup {Call(f, <<x>>, <<y>>) : f \in Callees, x \in S, y \in S}
        \cup {Call(f, <<>>, <<y>>) : f \in Callees, y \in S}
Others(S) == {Other(k, <<x, y>>) : k \in {"Compare", "BoolOp", "List"},
                                  x \in S, y \in S}

Depth2 == Unaries(Leaves) \cup Binaries(Leaves, Leaves) \cup Calls(Leaves)
              \cup OddCalls(SmallLeaves) \cup Others(SmallLeaves)
\* The operands of the deeper trees.
Inner == Unaries(Numbers) \cup Binaries(SmallLeaves, SmallLeaves)
             \cup Calls(SmallLeaves) \cup Others({Constant("int", One)})
Depth3 == Unaries(Inner) \cup Binaries(Inner, SmallLeaves)
              \cup Binaries(SmallLeaves, Inner) \cup Calls(Inner)
              \cup OddCalls({BinOp(Constant("int", One), "Div", Constant("int", Zero))})
\* Powers of negative bases and what is built on them.
NegPowers == {BinOp(UnaryOp("USub", b), "Pow", x) :
                  b \in Ints, x \in {Constant("float", Half), Constant("int", <<MaxInt, 1>>)}}
Depth4 == NegPowers \cup Unaries(NegPowers) \cup Binaries(NegPowers, SmallLeaves)
              \cup Binaries(SmallLeaves, NegPowers) \cup Calls(NegPowers)
              \cup Binaries(NegPowers, NegPowers)

\* Python's integers are unbounded and TLC's are 32 bits wide: a power of
\* a power is evaluated only on literals up to 2, where its value fits.
RECURSIVE HasPower(_), HasLarge(_)
Powers == {"Pow", "BitXor"}
HasPower(node) ==
    \/ node.k = "BinOp" /\ node.a \in Powers
    \/ \E i \in 1..Len(node.args) : HasPower(node.args[i])
HasLarge(node) ==
    \/ node.k = "Constant" /\ RLess(<<2, 1>>, node.v)
    \/ \E i \in 1..Len(node.args) : HasLarge(node.args[i])
Tower(node) ==
    /\ node.k = "BinOp" /\ node.a \in Powers
    /\ HasPower(node.args[1]) \/ HasPower(node.args[2])
    /\ HasLarge(node)

Trees == {t \in Leaves \cup Depth2 \cup Depth3 \cup Depth4 : ~Tower(t)}
Texts == {Text(t) : t \in Trees} \cup {NoParse, EmptyText}

(***************************************************************************)
(* The evaluator on its own: a caller calls eval with any text and takes   *)
(* what it returns or raises.                                              *)
(***************************************************************************)
NoOutcome == With(<<>>, Raise("", "", ""))
NoCall == [text |-> NoParse, outcome |-> NoOutcome]

\* SafeExpressionEvaluator.__init__ and Calculator.__init__.
Init ==
    /\ allowed_functions = [f \in {"sqrt", "sin", "cos", "tan", "log", "log10"} |-> f]
    /\ allowed_names = [n \in {"pi", "e"} |-> IF n = "pi" THEN PI ELSE E]
    /\ history = <<>>
    /\ welcome_shown = FALSE
    /\ pc = "ready"
    /\ event = ""
    /\ expression = NoParse
    /\ outcome = NoOutcome
    /\ seen = NoCall

\* eval keeping its last real value as the named constant x.
EvaluateCaching(text) ==
    /\ pc = "ready"
    /\ pc' = "returned"
    /\ expression' = text
    /\ outcome' = eval(text)
    /\ allowed_names' =
          IF outcome'.ok /\ ~IsComplex(outcome'.val)
          THEN [n \in DOMAIN allowed_names \cup {"x"} |->
                    IF n = "x" THEN outcome'.val.re ELSE allowed_names[n]]
          ELSE allowed_names
    /\ UNCHANGED <<allowed_functions, history, welcome_shown, event, seen>>

\* SafeExpressionEvaluator.eval: it reads the two tables and writes nothing.
Evaluate(text) ==
    /\ pc = "ready"
    /\ pc' = "returned"
    /\ expression' = text
    /\ outcome' = eval(text)
    /\ UNCHANGED <<allowed_functions, allowed_names, history, welcome_shown, event, seen>>

\* The caller is done with the result: calculate_basic's locals are dropped.
Return ==
    /\ pc = "returned"
    /\ pc' = "ready"
    /\ expression' = NoParse
    /\ outcome' = NoOutcome
    /\ UNCHANGED <<allowed_functions, allowed_names, history, welcome_shown, event, seen>>

Next ==
    \/ \E text \in Texts : Evaluate(text)
    \/ Return

Spec == Init /\ [][Next]_vars

(***************************************************************************)
(* A session of one evaluator: eval called again and again, an observer    *)
(* keeping one earlier call to compare the later ones with.                *)
(***************************************************************************)
SessionTexts ==
    {Text(t) : t \in Leaves \cup Unaries(SmallLeaves) \cup Calls(SmallLeaves)
                   \cup {BinOp(x, "Div", y) : x \in SmallLeaves, y \in SmallLeaves}}
        \cup {NoParse, EmptyText}

\* The observer notes the call that has just returned.
Remember ==
    /\ pc = "returned"
    /\ seen = NoCall
    /\ seen' = [text |-> expression, outcome |-> outcome]
    /\ pc' = "ready"
    /\ expression' = NoParse
    /\ outcome' = NoOutcome
    /\ UNCHANGED <<allowed_functions, allowed_names, history, welcome_shown, event>>

SessionNext ==
    \/ \E text \in SessionTexts : Evaluate(text)
    \/ Return
    \/ Remember

SpecSession == Init /\ [][SessionNext]_vars

(***************************************************************************)
(* Calculator: the interactive loop.  What it prints is not modelled.      *)
(***************************************************************************)
MaxHistory == 2

\* str.lower on the identifiers the model uses; True, False and None become
\* the identifiers true, false and none.
LowerId(id) ==
    CASE id = "PI" -> "pi"
      [] id = "QUIT" -> "quit"
      [] id = "Clear" -> "clear"
      [] OTHER -> id

RECURSIVE LowerNode(_)
LowerSeq(s) == [i \in 1..Len(s) |-> LowerNode(s[i])]
LowerNode(node) ==
    IF node.k = "Constant" /\ node.a = "bool"
    THEN Name(IF node.v = One THEN "true" ELSE "false")
    ELSE [node EXCEPT !.a = IF node.k \in {"Name", "Attribute"} THEN LowerId(@) ELSE @,
                      !.func = LowerSeq(@),
                      !.args = LowerSeq(@),
                      !.kw = LowerSeq(@)]

\* Lines 183-189: input(...).strip().lower(); a blank line strips to "".
get_user_input(line) ==
    IF line.tree = <<>> THEN line ELSE Text(LowerNode(line.tree[1]))

Command(word) == Text(Name(word))

\* Lines 191-205: empty input is refused, everything else passes.
validate_expression(text) == ~text.empty

\* Lines 207-238: calculate, calculate_basic and calculate_advanced all hand
\* the text to the evaluator and let its ValueError through.
calculate(text) == eval(text)

\* Lines 240-254.  A complex result has no is_integer: AttributeError.  The
\* digits are the value's, to the precision of the style.
format_result(result) ==
    IF IsComplex(result)
    THEN Raise("AttributeError", "'complex' object has no attribute 'is_integer'", "")
    ELSE LET x == result.re
             nearest == RFloor(RAdd(x, Half))
             off == Abs(x[1] - nearest * x[2])
         IN  IF IsInt(x) THEN Ret(Float(x))
             \* abs(result - round(result)) < 1e-10
             ELSE IF off <= ((x[2] - 1) \div 100000) \div 100000
             THEN Ret(Float(<<nearest, 1>>))
             ELSE IF ~RLess(Abs2(x), <<1000000, 1>>) \/ ~RLess(<<1, 10000>>, Abs2(x))
             THEN [Ret(Float(x)) EXCEPT !.msg = ".6e"]
             ELSE [Ret(Float(x)) EXCEPT !.msg = ".8g"]

\* The history replaced by the record of the one calculation.
add_to_history_only(text, result) ==
    <<[expression |-> text, result_str |-> format_result(result)]>>

\* Lines 256-260: the history with the record of one calculation appended.
add_to_history(text, result) ==
    Append(history, [expression |-> text, result_str |-> format_result(result)])

\* Calculator.__init__ and the top of run.
InitRun ==
    /\ Init
    /\ pc = "ready"

\* Lines 282, 150-170.
ShowWelcome ==
    /\ pc = "ready"
    /\ ~welcome_shown
    /\ welcome_shown' = TRUE
    /\ UNCHANGED <<allowed_functions, allowed_names, history, pc, event,
                   expression, outcome, seen>>

Read(line) ==
    /\ pc = "ready"
    /\ welcome_shown
    /\ event' = "line"
    /\ expression' = get_user_input(line)

\* Lines 294-296.
Quit(line) ==
    /\ Read(line)
    /\ expression' \in {Command("quit"), Command("exit")}
    /\ pc' = "exited"
    /\ outcome' = NoOutcome
    /\ UNCHANGED <<allowed_functions, allowed_names, history, welcome_shown, seen>>

\* Lines 299-301.
ShowHistory(line) ==
    /\ Read(line)
    /\ expression' = Command("history")
    /\ outcome' = NoOutcome
    /\ UNCHANGED <<allowed_functions, allowed_names, history, welcome_shown, pc, seen>>

\* Lines 303-305, 275-278.
ClearHistory(line) ==
    /\ Read(line)
    /\ expression' = Command("clear")
    /\ history' = <<>>
    /\ outcome' = NoOutcome
    /\ UNCHANGED <<allowed_functions, allowed_names, welcome_shown, pc, seen>>

IsCommand(text) ==
    text \in {Command(c) : c \in {"quit", "exit", "history", "clear"}}

\* Lines 308-309.
Refuse(line) ==
    /\ Read(line)
    /\ ~IsCommand(expression')
    /\ ~validate_expression(expression')
    /\ outcome' = NoOutcome
    /\ UNCHANGED <<allowed_functions, allowed_names, history, welcome_shown, pc, seen>>

\* Lines 311-320: the result is computed, formatted and recorded.
Calculate(line) ==
    /\ Read(line)
    /\ ~IsCommand(expression')
    /\ validate_expression(expression')
    /\ outcome' = calculate(expression')
    /\ outcome'.ok
    /\ format_result(outcome'.val).ok
    /\ Len(history) < MaxHistory
    /\ history' = add_to_history(expression', outcome'.val)
    /\ UNCHANGED <<allowed_functions, allowed_names, welcome_shown, pc, seen>>

\* Lines 328-333: the ValueError of calculate, or the AttributeError of
\* format_result, is printed and the loop continues.
Fail(line) ==
    /\ Read(line)
    /\ ~IsCommand(expression')
    /\ validate_expression(expression')
    /\ outcome' = calculate(expression')
    /\ ~outcome'.ok \/ ~format_result(outcome'.val).ok
    /\ UNCHANGED <<allowed_functions, allowed_names, history, welcome_shown, pc, seen>>

\* Lines 186-189, 322-324: Ctrl-C at the prompt reads as "quit"; anywhere
\* else in the loop it breaks out of it.
Interrupt ==
    /\ pc = "ready"
    /\ welcome_shown
    /\ event' = "interrupt"
    /\ pc' = "exited"
    /\ expression' = NoParse
    /\ outcome' = NoOutcome
    /\ UNCHANGED <<allowed_functions, allowed_names, history, welcome_shown, seen>>

\* Lines 325-327: input() raises EOFError.
EndOfInput ==
    /\ pc = "ready"
    /\ welcome_shown
    /\ event' = "eof"
    /\ pc' = "exited"
    /\ expression' = NoParse
    /\ outcome' = NoOutcome
    /\ UNCHANGED <<allowed_functions, allowed_names, history, welcome_shown, seen>>

\* The lines typed at the prompt.
Lines ==
    {Text(t) : t \in Numbers
                 \cup {Name(id) : id \in {"pi", "PI", "x", "quit", "QUIT", "exit",
                                          "history", "clear", "Clear"}}
                 \cup {Constant("bool", One),
                       BinOp(Constant("int", One), "Div", Constant("int", Zero)),
                       BinOp(Constant("int", One), "Div", Constant("int", <<MaxInt, 1>>)),
                       BinOp(Constant("int", <<MaxInt, 1>>), "BitXor", Constant("float", Half)),
                       BinOp(UnaryOp("USub", Constant("int", One)), "BitXor",
                             Constant("float", Half)),
                       Call(Name("sqrt"), <<Constant("int", <<MaxInt, 1>>)>>, <<>>),
                       Call(Name("SQRT"), <<Constant("int", One)>>, <<>>),
                       Call(Name("log"), <<Constant("int", Zero)>>, <<>>),
                       Call(Name("foo"), <<Constant("int", One)>>, <<>>),
                       Other("Compare", <<Constant("int", One), Constant("int", One)>>)}}
        \cup {NoParse, EmptyText}

RunNext ==
    \/ ShowWelcome
    \/ \E line \in Lines :
          \/ Quit(line)
          \/ ShowHistory(line)
          \/ ClearHistory(line)
          \/ Refuse(line)
          \/ Calculate(line)
          \/ Fail(line)
    \/ Interrupt
    \/ EndOfInput

SpecRun == InitRun /\ [][RunNext]_vars

(***************************************************************************)
(* The claims.  Under Spec and SpecSession a state with pc = "returned"    *)
(* holds one finished call of eval: its text and its outcome.              *)
(***************************************************************************)
FunctionWhitelist == {"sqrt", "sin", "cos", "tan", "log", "log10"}
ConstantWhitelist == {"pi", "e"}
ArithmeticOps == {"Add", "Sub", "Mult", "Div", "Mod", "Pow"}

Returned == pc = "returned" /\ expression.tree # <<>>
\* The tree ast.parse hands to _eval_node.
Tree == ReplaceCaret(expression.tree[1])
Failed(msg) == ~outcome.ok /\ outcome.exc = "ValueError" /\ outcome.msg = msg
FailedNaming(msg, name) == Failed(msg) /\ outcome.name = name

\* The callee is a whitelisted function, bare or through the math. sugar.
WhitelistedCallee(func) ==
    \/ func.k = "Name" /\ func.a \in FunctionWhitelist
    \/ /\ func.k = "Attribute"
       /\ func.args[1] = Name("math")
       /\ func.a \in FunctionWhitelist

RECURSIVE Whitelisted(_)
Whitelisted(node) ==
    CASE node.k = "Constant" -> node.a \in {"int", "float"}
      [] node.k = "Name" -> node.a \in ConstantWhitelist
      [] node.k = "UnaryOp" -> node.a \in {"UAdd", "USub"} /\ Whitelisted(node.args[1])
      [] node.k = "BinOp" -> /\ node.a \in ArithmeticOps
                             /\ Whitelisted(node.args[1])
                             /\ Whitelisted(node.args[2])
      [] node.k = "Call" -> /\ WhitelistedCallee(node.func[1])
                            /\ Len(node.args) = 1
                            /\ node.kw = <<>>
                            /\ Whitelisted(node.args[1])
      [] OTHER -> FALSE

\* C1: if any node of the tree is outside the whitelist (another node kind,
\* a constant that is no number, an identifier other than pi and e, a call
\* target outside the six functions, a call that has not exactly one
\* argument), eval fails and returns no value.
C1_DenyByDefault == (Returned /\ ~Whitelisted(Tree)) => ~outcome.ok

\* Syntax outside the arithmetic grammar: comparison and boolean operators,
\* string and list literals, attribute access other than the math. sugar,
\* other binary operators; here or below.
RECURSIVE OutsideGrammar(_)
AnyOutside(s) == \E i \in 1..Len(s) : OutsideGrammar(s[i])
OutsideGrammar(node) ==
    \/ node.k \in {"Compare", "BoolOp", "List", "Lambda"}
    \/ node.k = "Constant" /\ node.a = "str"
    \/ node.k = "UnaryOp" /\ node.a = "Not"
    \/ node.k = "BinOp" /\ node.a \notin ArithmeticOps
    \/ node.k = "Attribute" /\ node.args[1] # Name("math")
    \/ AnyOutside(node.func) \/ AnyOutside(node.args) \/ AnyOutside(node.kw)

\* C2: a text whose syntax is outside the arithmetic grammar fails with the
\* syntax error, and none of its subexpressions is evaluated first.
C2_RejectedUnevaluated ==
    (Returned /\ OutsideGrammar(Tree)) => (Failed("syntax error") /\ outcome.trace = <<>>)

\* The node entered i-th is a division whose operands both evaluate, the
\* right one to zero.
DividesByZero(i) ==
    LET node == outcome.trace[i]
    IN  /\ node.k = "BinOp" /\ node.a = "Div"
        /\ eval_node(node.args[1]).ok
        /\ eval_node(node.args[2]).ok
        /\ VZero(eval_node(node.args[2]).val)

\* C3: when a division is reached whose right operand evaluates to exactly
\* zero, eval fails with the division-by-zero error and returns no value,
\* whatever the left operand and wherever the division sits in the tree.
C3_DivisionByZero ==
    Returned =>
        \A i \in 1..Len(outcome.trace) : DividesByZero(i) => Failed("division by zero")

\* A division below the root, its left operand complex or real, was reached
\* with a zero divisor.
C3_Witness ==
    /\ Returned
    /\ \E i \in 2..Len(outcome.trace) : DividesByZero(i)
    /\ Failed("division by zero")

\* The node entered i-th is a power whose base evaluates to a negative real
\* and whose exponent to a real that is no integer.
NegativeToFraction(i) ==
    LET node == outcome.trace[i]
        left == eval_node(node.args[1])
        right == eval_node(node.args[2])
    IN  /\ node.k = "BinOp" /\ node.a = "Pow"
        /\ left.ok /\ ~IsComplex(left.val) /\ IsNeg(left.val.re)
        /\ right.ok /\ ~IsComplex(right.val) /\ ~IsInt(right.val.re)

\* C4: a negative base raised to a fractional exponent fails with the
\* domain error, and eval returns no complex result.
C4_PowerDomainError ==
    Returned =>
        /\ outcome.ok => ~IsComplex(outcome.val)
        /\ \A i \in 1..Len(outcome.trace) :
              NegativeToFraction(i) => Failed("math domain error (domain)")

\* The name a call is made by: f for f(...) and for math.f(...).
Target(node) == node.func[1].a
NamesTarget(node) ==
    \/ node.func[1].k = "Name"
    \/ node.func[1].k = "Attribute" /\ node.func[1].args[1] = Name("math")

\* The node entered i-th is a call by a name outside the function whitelist.
CallsUnknown(i) ==
    LET node == outcome.trace[i]
    IN  /\ node.k = "Call"
        /\ NamesTarget(node)
        /\ Target(node) \notin FunctionWhitelist

\* C5: a call whose target name is outside the function whitelist fails as
\* an unsupported function naming the target, before its arguments are
\* counted or evaluated: the call is the last node entered.
C5_UnknownFunctionFirst ==
    Returned =>
        \A i \in 1..Len(outcome.trace) :
            CallsUnknown(i) =>
                /\ FailedNaming("unsupported function", Target(outcome.trace[i]))
                /\ i = Len(outcome.trace)

\* An unknown function was called with two arguments that would each fail.
C5_Witness ==
    /\ Returned
    /\ Tree.k = "Call" /\ Tree.func[1] = Name("foo")
    /\ Len(Tree.args) = 2 /\ ~eval_node(Tree.args[1]).ok
    /\ FailedNaming("unsupported function", "foo")

ArityErrors == {"function needs 1 argument", "keyword arguments are not supported"}

\* The node entered i-th is a call with no or several positional arguments,
\* or with a keyword argument.
MiscountedCall(i) ==
    LET node == outcome.trace[i]
    IN  node.k = "Call" /\ (Len(node.args) # 1 \/ node.kw # <<>>)

\* C6 as stated: every call with an argument count other than one, or with
\* a keyword argument, fails with the arity error and evaluates no argument.
C6_ArityError ==
    Returned =>
        \A i \in 1..Len(outcome.trace) :
            MiscountedCall(i) =>
                /\ ~outcome.ok /\ outcome.msg \in ArityErrors
                /\ i = Len(outcome.trace)

\* C6 amended: a call of a whitelisted function, bare or through math.,
\* with an argument count other than one or with a keyword argument fails
\* with the arity error -- naming the function when the positional count is
\* not one -- and evaluates no argument.
C6_ArityErrorOfWhitelisted ==
    Returned =>
        \A i \in 1..Len(outcome.trace) :
            (MiscountedCall(i) /\ WhitelistedCallee(outcome.trace[i].func[1])) =>
                /\ IF Len(outcome.trace[i].args) # 1
                   THEN FailedNaming("function needs 1 argument",
                                     Target(outcome.trace[i]))
                   ELSE Failed("keyword arguments are not supported")
                /\ i = Len(outcome.trace)

\* sqrt was called with one argument and a keyword argument, both failing
\* when evaluated.
C6_Witness ==
    /\ Returned
    /\ Tree.k = "Call" /\ Tree.func[1] = Name("sqrt")
    /\ Len(Tree.args) = 1 /\ Len(Tree.kw) = 1
    /\ ~eval_node(Tree.args[1]).ok
    /\ Failed("keyword arguments are not supported")
    /\ outcome.trace = <<Tree>>

\* Two outcomes agree: the same value, or the same error.
SameOutcome(a, b) ==
    /\ a.ok = b.ok /\ a.val = b.val
    /\ a.exc = b.exc /\ a.msg = b.msg /\ a.name = b.name

Qualified == Tree.k = "Call" /\ Tree.func[1].k = "Attribute"
\* The call with the qualifier dropped.
Bare == Call(Name(Tree.func[1].a), Tree.args, Tree.kw)
Sugar == Tree.func[1].args[1] = Name("math") /\ Tree.func[1].a \in FunctionWhitelist

\* C7 as stated: math.f(a) has the outcome of f(a) for a whitelisted f; any
\* other qualified call is rejected as an unsupported attribute access.
C7_MathSugar ==
    (Returned /\ Qualified) =>
        IF Sugar THEN SameOutcome(outcome, eval(Text(Bare)))
        ELSE FailedNaming("unsupported attribute access", Tree.func[1].a)

\* C7 amended: math.f(a) has the outcome of f(a) for every f, so math. with
\* a name outside the whitelist is rejected as an unsupported function; a
\* call through any other qualifier is rejected as an unsupported attribute
\* access.
C7_MathSugarOrUnsupported ==
    (Returned /\ Qualified) =>
        IF Tree.func[1].args[1] = Name("math")
        THEN SameOutcome(outcome, eval(Text(Bare)))
        ELSE FailedNaming("unsupported attribute access", Tree.func[1].a)

\* math.log returned a value for its argument.
C7_Witness ==
    /\ Returned /\ Qualified /\ Sugar
    /\ Tree.func[1].a = "log"
    /\ outcome.ok /\ ~IsZero(outcome.val.re)

\* The node entered i-th is an identifier outside the constant table.
UnknownName(i) ==
    outcome.trace[i].k = "Name" /\ outcome.trace[i].a \notin ConstantWhitelist

\* The node entered i-th is a binary operation whose left operand fails.
LeftFails(i) ==
    outcome.trace[i].k = "BinOp" /\ ~eval_node(outcome.trace[i].args[1]).ok

\* C8: pi and e evaluate to their values; every other identifier, a
\* function name included, fails as an undefined name naming it; and a
\* binary operation whose left operand fails reports the left operand's
\* error, its right operand not evaluated.
C8_Names ==
    Returned =>
        /\ Tree = Name("pi") => outcome.ok /\ outcome.val = Float(PI)
        /\ Tree = Name("e") => outcome.ok /\ outcome.val = Float(E)
        /\ \A i \in 1..Len(outcome.trace) :
              /\ UnknownName(i) =>
                    /\ FailedNaming("undefined name", outcome.trace[i].a)
                    /\ i = Len(outcome.trace)
              /\ LeftFails(i) =>
                    LET left == eval_node(outcome.trace[i].args[1])
                    IN  /\ SameOutcome(outcome, Handle(left))
                        /\ Len(outcome.trace) = i + Len(left.trace)

\* Both operands are undefined names, and the left one is reported.
C8_Witness ==
    /\ Returned
    /\ Tree.k = "BinOp"
    /\ Tree.args[1] = Name("x") /\ Tree.args[2] = Name("sqrt")
    /\ FailedNaming("undefined name", "x")

\* C9: eval never writes the whitelist tables, and a text evaluated again on
\* the same evaluator, whatever was evaluated in between, has the outcome it
\* had the first time: the same value or the same error.
C9_Deterministic ==
    /\ allowed_functions = [f \in FunctionWhitelist |-> f]
    /\ allowed_names = [n \in ConstantWhitelist |-> IF n = "pi" THEN PI ELSE E]
    /\ (pc = "returned" /\ seen # NoCall /\ seen.text = expression) =>
           seen.outcome = outcome

\* The undefined name x was evaluated, then other texts, then x again.
C9_Witness ==
    /\ pc = "returned"
    /\ seen # NoCall
    /\ seen.text = expression
    /\ expression = Text(Name("x"))
    /\ Failed("undefined name")

\* What the step about to end has read, and how it went.
Succeeded == outcome # NoOutcome /\ outcome.ok /\ format_result(outcome.val).ok
Errored == outcome # NoOutcome /\ ~Succeeded
Ended == expression \in {Command("quit"), Command("exit")} \/ event \in {"interrupt", "eof"}

\* C10: a step of the loop leaves the history as it was, or empties it on
\* clear, or appends the one record of a calculation that succeeded; a
\* failed calculation, an empty line and the history command leave it as it
\* was and the loop reading; the loop ends only on quit, exit, an interrupt
\* or the end of the input.
C10_HistoryFrame ==
    [][ /\ \/ history' = history
           \/ expression' = Command("clear") /\ history' = <<>>
           \/ /\ Succeeded'
              /\ history' = Append(history, [expression |-> expression',
                                            result_str |-> format_result(outcome'.val)])
        /\ (event' = "line" /\ Succeeded') => Len(history') = Len(history) + 1
        /\ (event' = "line" /\ (Errored' \/ expression' \in {EmptyText, Command("history")})) =>
               history' = history /\ pc' = "ready"
        /\ pc' = "exited" => Ended'
      ]_vars

\* A calculation failed after one was recorded, and the loop reads on.
C10_Witness ==
    /\ history # <<>>
    /\ Errored
    /\ pc = "ready"

====
